---- MODULE Spec2Model ----
(***************************************************************************)
(* Model of the IMDb filmography synchronizer (src/index.js).              *)
(*                                                                         *)
(*   extractImdbId               the Identifier Extractor                  *)
(*   extractFilmographyFromHtml  the Payload Normalizer                    *)
(*   processAllExistingImdbLinks the Sync Driver, with the main IIFE       *)
(*                                                                         *)
(* Three specifications share the variables:                               *)
(*   SpecId    applies extractImdbId to bounded inputs                     *)
(*   SpecNorm  applies extractFilmographyFromHtml to bounded documents     *)
(*   Spec      runs the driver, several process runs one after another     *)
(***************************************************************************)
EXTENDS Integers, Sequences, FiniteSets, TLC

VARIABLES
    \* ---- Identifier Extractor harness
    url,        \* the argument of extractImdbId
    idOut,      \* its outcome, NotCalled before the call
    \* ---- Payload Normalizer harness
    html,       \* the argument of extractFilmographyFromHtml
    normOut,    \* its outcome, NotCalled before the call
    \* ---- Sync Driver: what outlives a process
    source,     \* tblTalentIMDBResume: a sequence of [TalentID, IMDBLink]
    web,        \* www.imdb.com: the page served for each identifier
    output,     \* tblImdbMetaData: the rows, in insertion order
    run,        \* the number of the process run
    \* ---- Sync Driver: the state of the running process
    pc,         \* the position in processAllExistingImdbLinks / the main IIFE
    pool,       \* the variable pool: "undefined", "open" or "closed"
    rows,       \* result.recordset
    idx,        \* the position of the for loop in rows
    imdbId,     \* const imdbId of the current iteration
    pageHtml,   \* const pageHtml of the current iteration
    credits,    \* const credits of the current iteration
    k,          \* the position of the inner for loop in credits
    exitCode,   \* the status passed to process.exit, -1 while running
    \* ---- history, read by the properties only
    itemState,  \* the stage each WorkItem of rows has reached in this run
    oplog,      \* every operation on the storage and on the web, all runs
    prevState   \* itemState as the previous run left it

idVars   == <<url, idOut>>
normVars == <<html, normOut>>
drvVars  == <<source, web, output, run, pc, pool, rows, idx, imdbId, pageHtml,
              credits, k, exitCode, itemState, oplog, prevState>>

(***************************************************************************)
(* JavaScript values.  Every value is a record tagged by t, so that values *)
(* of different types can be compared.                                     *)
(***************************************************************************)
Undefined == [t |-> "undefined"]
Null      == [t |-> "null"]
Str(s)    == [t |-> "string", s |-> s]
Num(n)    == [t |-> "number", n |-> n]
Obj(f)    == [t |-> "object", f |-> f]
Arr(a)    == [t |-> "array", a |-> a]
EmptyObj  == Obj([key \in {} |-> Undefined])

\* An exception propagating out of an expression or a function.
TypeError == [t |-> "throw", name |-> "TypeError"]
IsThrow(v) == v.t = "throw"

\* A harness variable before the function under test was called.
NotCalled == [t |-> "notcalled"]

IsNullish(v) == v.t \in {"undefined", "null"}

\* ToBoolean: what `!v`, `v || w` and `v ? a : b` test.
Truthy(v) ==
    CASE v.t = "undefined" -> FALSE
      [] v.t = "null"      -> FALSE
      [] v.t = "string"    -> IF "c" \in DOMAIN v THEN v.c # <<>> ELSE v.s # ""
      [] v.t = "number"    -> v.n # 0
      [] OTHER             -> TRUE

\* v || w
Or(v, w) == IF Truthy(v) THEN v ELSE w

\* v?.key once v is known not to be nullish: v.key
Prop(v, key) ==
    IF v.t = "object" /\ key \in DOMAIN v.f THEN v.f[key] ELSE Undefined

\* v?.key
Opt(v, key) == IF IsNullish(v) THEN Undefined ELSE Prop(v, key)

\* v?.[0]
OptFirst(v) ==
    IF v.t = "array" /\ Len(v.a) >= 1 THEN v.a[1] ELSE Undefined

DigitChars == <<"0", "1", "2", "3", "4", "5", "6", "7", "8", "9">>

RECURSIVE NatToString(_)
NatToString(n) ==
    IF n < 10 THEN DigitChars[n + 1]
    ELSE NatToString(n \div 10) \o DigitChars[(n % 10) + 1]

\* Number.prototype.toString, String.prototype.toString, Object.prototype.toString
ToStringOf(v) ==
    CASE v.t = "number" -> Str(IF v.n < 0 THEN "-" \o NatToString(-v.n)
                                          ELSE NatToString(v.n))
      [] v.t = "string" -> v
      [] v.t = "array"  -> Str("[array]")
      [] OTHER          -> Str("[object Object]")

\* v.toString(): a method call on undefined or null raises a TypeError
CallToString(v) == IF IsNullish(v) THEN TypeError ELSE ToStringOf(v)

\* v?.toString()
OptToString(v) == IF IsNullish(v) THEN Undefined ELSE ToStringOf(v)

(***************************************************************************)
(* Identifier Extractor.  A URL string is a sequence of characters.        *)
(***************************************************************************)
Chars(c) == [t |-> "string", c |-> c]

IsDigit(ch) == ch \in {"0", "1", "2", "3", "4", "5", "6", "7", "8", "9"}

NamePrefix == <<"/", "n", "a", "m", "e", "/", "n", "m">>

\* \d+ is greedy: the index of the last digit of the run that starts at j
RECURSIVE DigitRunEnd(_, _)
DigitRunEnd(c, j) ==
    IF j + 1 <= Len(c) /\ IsDigit(c[j + 1]) THEN DigitRunEnd(c, j + 1) ELSE j

\* /\/name\/(nm\d+)\/?/ anchored at index i: the index of the last character
\* of group 1, or 0 when the pattern does not match at i
MatchAtStar(c, i) ==
    IF /\ i + 7 <= Len(c)
       /\ SubSeq(c, i, i + 7) = NamePrefix
    THEN DigitRunEnd(c, i + 7)
    ELSE 0

MatchAt(c, i) ==
    IF /\ i + 8 <= Len(c)
       /\ SubSeq(c, i, i + 7) = NamePrefix
       /\ IsDigit(c[i + 8])
    THEN DigitRunEnd(c, i + 8)
    ELSE 0

\* String.prototype.match without the g flag: the leftmost match; group 1 of
\* it, or Null when nothing matches
RECURSIVE RegexSearch(_, _)
RegexSearch(c, i) ==
    IF i > Len(c) THEN Null
    ELSE IF MatchAt(c, i) # 0 THEN Chars(SubSeq(c, i + 6, MatchAt(c, i)))
    ELSE RegexSearch(c, i + 1)

extractImdbId(u) ==
    IF u.t \in {"undefined", "null"} \/ (u.t = "string" /\ u.c = <<>>)
    THEN Null                                   \* if (!url) return null
    ELSE IF u.t # "string" THEN TypeError       \* url.match is not a function
    ELSE RegexSearch(u.c, 1)

(***************************************************************************)
(* Payload Normalizer.                                                     *)
(*                                                                         *)
(* A page is [script |-> v], v being what $("#__NEXT_DATA__").html()       *)
(* returns: Null when the page has no such element, Str("") for an empty   *)
(* element, else a JSON text.  A JSON text carries the value JSON.parse    *)
(* returns for it, or is marked invalid.                                   *)
(***************************************************************************)
JsonText(v)  == [t |-> "jsontext", valid |-> TRUE, value |-> v]
InvalidJson  == [t |-> "jsontext", valid |-> FALSE]
SyntaxError  == [t |-> "throw", name |-> "SyntaxError"]

JsonParse(text) == IF text.valid THEN text.value ELSE SyntaxError

\* what the function wrote to the console
ErrNoBlock   == [level |-> "error", msg |-> "__NEXT_DATA__ not found in HTML"]
ErrBadJson   == [level |-> "error", msg |-> "Failed to parse __NEXT_DATA__ JSON:"]
WarnNoData   == [level |-> "warn", msg |-> "No filmography data found in __NEXT_DATA__"]

Return(cs, console) ==
    [t |-> "return", credits |-> cs, console |-> console]

\* [...v]: an array spreads to its elements and a string to its characters
\* (of a character only its being a string matters below); anything else
\* that reaches the spread is truthy and not iterable
Spread(v) ==
    CASE v.t = "array"  -> v
      [] v.t = "string" -> Arr([i \in 1..Len(v.s) |-> Str("?")])
      [] OTHER          -> TypeError

\* credit?.credits?.edges || []
EdgesOfGroup(credit) ==
    Or(Opt(Opt(credit, "credits"), "edges"), Arr(<<>>))

\* Array.prototype.flatMap: an array returned by the callback is spliced in,
\* any other value is appended as one element
RECURSIVE FlatMapEdges(_)
FlatMapEdges(groups) ==
    IF groups = <<>> THEN <<>>
    ELSE LET e == EdgesOfGroup(Head(groups))
         IN  (IF e.t = "array" THEN e.a ELSE <<e>>) \o FlatMapEdges(Tail(groups))

\* range?.year.toString(): the optional chain short-circuits as a whole when
\* range is nullish; the call .toString() on range.year itself is unguarded
YearToString(range) ==
    IF IsNullish(range) THEN Undefined ELSE CallToString(Prop(range, "year"))

\* line 142
FromYearOf(node) ==
    LET a == YearToString(Opt(Opt(node, "episodeCredits"), "yearRange"))
        b == YearToString(Opt(Opt(node, "title"), "releaseYear"))
    IN  IF IsThrow(a) THEN a
        ELSE IF Truthy(a) THEN a
        ELSE IF IsThrow(b) THEN b
        ELSE Or(b, Str(""))

\* line 143
ToYearOf(node) ==
    Or(OptToString(Opt(Opt(Opt(node, "episodeCredits"), "yearRange"), "endYear")),
       Null)

\* lines 139-141
TitleUrlOf(node) ==
    LET id == Opt(Opt(node, "title"), "id")
    IN  IF Truthy(id)
        THEN Str("https://www.imdb.com/title/" \o ToStringOf(id).s \o "/")
        ELSE Str("")

\* lines 146
RoleOf(node) ==
    Or(Opt(OptFirst(Opt(node, "characters")), "name"),
       Or(Opt(Opt(node, "category"), "text"), Str("")))

\* The body of the for loop, lines 137-149: the credit pushed for one edge,
\* or the exception the body raises
CreditOf(edge) ==
    LET node == Opt(edge, "node")
        fromYear == FromYearOf(node)
    IN  IF IsThrow(fromYear) THEN fromYear
        ELSE [ t        |-> "credit",
               title    |-> Or(Opt(Opt(Opt(node, "title"), "titleText"), "text"), Str("")),
               titleUrl |-> TitleUrlOf(node),
               fromYear |-> fromYear,
               toYear   |-> ToYearOf(node),
               noOfEpisodes |-> Or(Opt(Opt(node, "episodeCredits"), "total"), Num(0)),
               type     |-> Or(Opt(Opt(Opt(node, "title"), "titleType"), "text"), Str("")),
               role     |-> RoleOf(node),
               currentProductionStage |->
                   Or(Opt(Opt(Opt(Opt(node, "title"), "productionStatus"),
                              "currentProductionStage"), "text"), Str("")) ]

\* for (const edge of edges) { ... credits.push(...) }: the array of the
\* credits pushed, or the exception of the first edge whose body raises
RECURSIVE PushCredits(_, _)
PushCredits(edges, cs) ==
    IF edges = <<>> THEN Arr(cs)
    ELSE LET c == CreditOf(Head(edges))
         IN  IF IsThrow(c) THEN c
             ELSE PushCredits(Tail(edges), Append(cs, c))

MainColumnData(imdbJson) ==
    Opt(Opt(Opt(imdbJson, "props"), "pageProps"), "mainColumnData")

\* the function with JSON.parse outside a try block
extractFilmographyParseUncaught(page) ==
    IF ~Truthy(page.script) THEN Return(<<>>, <<ErrNoBlock>>)
    ELSE IF IsThrow(JsonParse(page.script)) THEN JsonParse(page.script)
    ELSE
    LET m == MainColumnData(JsonParse(page.script))
        r == Spread(Or(Opt(m, "releasedPrimaryCredits"), Arr(<<>>)))
        u == Spread(Or(Opt(m, "unreleasedPrimaryCredits"), Arr(<<>>)))
    IN  IF IsThrow(r) THEN r
        ELSE IF IsThrow(u) THEN u
        ELSE LET pushed == PushCredits(FlatMapEdges(r.a \o u.a), <<>>)
             IN  IF IsThrow(pushed) THEN pushed ELSE Return(pushed.a, <<>>)

\* The outcome of extractFilmographyFromHtml(page): Return(credits, console)
\* or the exception that propagates to the caller
extractFilmographyFromHtml(page) ==
    LET nextDataScript == page.script
    IN
    IF ~Truthy(nextDataScript) THEN Return(<<>>, <<ErrNoBlock>>)
    ELSE
    LET imdbJson == JsonParse(nextDataScript)
    IN
    IF IsThrow(imdbJson) THEN Return(<<>>, <<ErrBadJson>>)
    ELSE
    LET released   == Or(Opt(MainColumnData(imdbJson), "releasedPrimaryCredits"), Arr(<<>>))
        unreleased == Or(Opt(MainColumnData(imdbJson), "unreleasedPrimaryCredits"), Arr(<<>>))
        r == Spread(released)
        u == Spread(unreleased)
    IN
    IF IsThrow(r) THEN r
    ELSE IF IsThrow(u) THEN u
    ELSE
    LET edges == Arr(FlatMapEdges(r.a \o u.a))
    IN
    IF ~Truthy(edges) \/ edges.t # "array" THEN Return(<<>>, <<WarnNoData>>)
    ELSE
    LET pushed == PushCredits(edges.a, <<>>)
    IN
    IF IsThrow(pushed) THEN pushed ELSE Return(pushed.a, <<>>)

\* The driver's variables in the specifications that do not run the driver.
DriverIdle ==
    /\ source = <<>>
    /\ web = <<>>
    /\ output = <<>>
    /\ run = 0
    /\ pc = "idle"
    /\ pool = "undefined"
    /\ rows = <<>>
    /\ idx = 0
    /\ imdbId = Undefined
    /\ pageHtml = Undefined
    /\ credits = <<>>
    /\ k = 0
    /\ exitCode = -1
    /\ itemState = <<>>
    /\ oplog = <<>>
    /\ prevState = <<>>

(***************************************************************************)
(* SpecId: extractImdbId on every concatenation of at most MaxFrags        *)
(* fragments, on null, on undefined and on a number.                       *)
(***************************************************************************)
MaxFrags == 3

Fragments ==
    { <<"/", "n", "a", "m", "e", "/">>, <<"n", "m">>, <<"7">>, <<"4", "2">>,
      <<"/">>, <<"x">>, <<"n", "a", "m", "e", "/">>, <<"N", "M">> }

RECURSIVE Concats(_)
Concats(n) ==
    IF n = 0 THEN { <<>> }
    ELSE Concats(n - 1) \cup { a \o b : a \in Concats(n - 1), b \in Fragments }

UrlInputs ==
    { Chars(c) : c \in Concats(MaxFrags) } \cup { Null, Undefined, Num(5) }

(***************************************************************************)
(* SpecNorm: extractFilmographyFromHtml on bounded pages.                  *)
(*                                                                         *)
(*   FieldPages  one released edge whose node has every combination of     *)
(*               presence and absence of the fields the loop reads, at     *)
(*               every depth, followed by one unreleased edge              *)
(*   OrderPages  each container absent, or a list of at most MaxGroups     *)
(*               groups of at most MaxEdges edges                          *)
(*   OddPages    pages without the block, with an undecodable block, and   *)
(*               payloads whose upper levels are missing or of an          *)
(*               unexpected type                                           *)
(***************************************************************************)
MaxGroups == 1
MaxEdges  == 2

\* marks a key that the object built by ObjOf does not have
Absent == [t |-> "absent"]
ObjOf(f) == Obj([key \in {x \in DOMAIN f : f[x] # Absent} |-> f[key]])

SeqsUpTo(S, n) == UNION { [1..m -> S] : m \in 0..n }

TextOpts(s) == { Absent, EmptyObj, ObjOf([text |-> Str(s)]) }

TitleOpts ==
    { Absent } \cup
    { ObjOf([titleText |-> a, id |-> b, releaseYear |-> c, titleType |-> d,
             productionStatus |-> e]) :
        a \in TextOpts("Show X"),
        b \in { Absent, Str("tt9999") },
        c \in { Absent, EmptyObj, ObjOf([year |-> Num(2020)]) },
        d \in TextOpts("Movie"),
        e \in { Absent, EmptyObj, ObjOf([currentProductionStage |-> EmptyObj]),
                ObjOf([currentProductionStage |-> ObjOf([text |-> Str("Filming")])]) } }

EpisodeCreditsOpts ==
    { Absent, Null } \cup
    { ObjOf([yearRange |-> a, total |-> b]) :
        a \in { Absent } \cup { ObjOf([year |-> y, endYear |-> z]) :
                                  y \in { Absent, Num(2019) },
                                  z \in { Absent, Num(2021) } },
        b \in { Absent, Num(12) } }

CharactersOpts ==
    { Absent, Arr(<<>>), Arr(<<EmptyObj>>), Arr(<<ObjOf([name |-> Str("Hero")])>>) }

FieldNodes ==
    { ObjOf([title |-> a, episodeCredits |-> b, characters |-> c, category |-> d]) :
        a \in TitleOpts, b \in EpisodeCreditsOpts, c \in CharactersOpts,
        d \in TextOpts("Actor") }

FieldEdges == { Null, EmptyObj } \cup { ObjOf([node |-> n]) : n \in FieldNodes }

TitledEdge(s) ==
    ObjOf([node |-> ObjOf([title |-> ObjOf([titleText |-> ObjOf([text |-> Str(s)])])])])

Group(edges) == ObjOf([credits |-> ObjOf([edges |-> Arr(edges)])])

PageOfJson(v) == [script |-> JsonText(v)]

PageOfData(m) ==
    PageOfJson(ObjOf([props |-> ObjOf([pageProps |-> ObjOf([mainColumnData |-> m])])]))

PageOf(released, unreleased) ==
    PageOfData(ObjOf([releasedPrimaryCredits |-> released,
                      unreleasedPrimaryCredits |-> unreleased]))

FieldPages ==
    { PageOf(Arr(<<Group(<<e>>)>>), Arr(<<Group(<<TitledEdge("B")>>)>>)) :
        e \in FieldEdges }

OrderEdges == { TitledEdge("A"), TitledEdge("B") }

GroupOpts == { EmptyObj } \cup { Group(es) : es \in SeqsUpTo(OrderEdges, MaxEdges) }

ContainerOpts == { Absent } \cup { Arr(gs) : gs \in SeqsUpTo(GroupOpts, MaxGroups) }

OrderPages == { PageOf(r, u) : r \in ContainerOpts, u \in ContainerOpts }

OddPages ==
    { [script |-> Null], [script |-> Str("")], [script |-> InvalidJson],
      PageOfJson(Null), PageOfJson(Num(1)), PageOfJson(EmptyObj),
      PageOfData(Absent), PageOfData(Null), PageOfData(EmptyObj),
      PageOf(EmptyObj, Absent), PageOf(Absent, Num(3)),
      PageOf(Arr(<<Null>>), Arr(<<EmptyObj>>)),
      PageOf(Arr(<<ObjOf([credits |-> ObjOf([edges |-> EmptyObj])])>>), Absent),
      PageOf(Str("ab"), Arr(<<Group(<<TitledEdge("A")>>)>>)) }

NormPages == FieldPages \cup OrderPages \cup OddPages

InitNorm ==
    /\ html \in NormPages
    /\ normOut = NotCalled
    /\ url = NotCalled
    /\ idOut = NotCalled
    /\ DriverIdle

CallExtractFilmography ==
    /\ normOut = NotCalled
    /\ normOut' = extractFilmographyFromHtml(html)
    /\ UNCHANGED <<html, url, idOut>>
    /\ UNCHANGED drvVars

NextNorm == CallExtractFilmography

InitId ==
    /\ url \in UrlInputs
    /\ idOut = NotCalled
    /\ html = NotCalled
    /\ normOut = NotCalled
    /\ DriverIdle

CallExtractImdbId ==
    /\ idOut = NotCalled
    /\ idOut' = extractImdbId(url)
    /\ UNCHANGED <<url, html, normOut>>
    /\ UNCHANGED drvVars

NextId == CallExtractImdbId

(***************************************************************************)
(* Sync Driver.                                                            *)
(*                                                                         *)
(* The storage and the web are the environment: sql.connect, the pending   *)
(* set query, fetch and each INSERT either succeed or raise.  pool.close() *)
(* is taken to resolve.  A process run ends in process.exit; the next run  *)
(* is a new process on the same tables and the same web.                   *)
(***************************************************************************)
MaxRuns == 2

Talents == <<7, 8>>

LinkOf(n) ==
    Chars(<<"x", "/", "n", "a", "m", "e", "/", "n", "m", DigitChars[n + 1], "/">>)

NoIdLink == Chars(<<"x", "/", "n", "a", "m", "e", "/">>)

IdOf(n) == Chars(<<"n", "m", DigitChars[n + 1]>>)

MovieA ==
    ObjOf([node |-> ObjOf([
        title |-> ObjOf([titleText |-> ObjOf([text |-> Str("Movie A")]),
                         id |-> Str("tt9999"),
                         releaseYear |-> ObjOf([year |-> Num(2020)]),
                         titleType |-> ObjOf([text |-> Str("Movie")])]),
        characters |-> Arr(<<ObjOf([name |-> Str("Hero")])>>)])])

SeriesB ==
    ObjOf([node |-> ObjOf([
        title |-> ObjOf([titleText |-> ObjOf([text |-> Str("Series B")]),
                         id |-> Str("tt1"),
                         titleType |-> ObjOf([text |-> Str("TV Series")]),
                         productionStatus |-> ObjOf([currentProductionStage |->
                                                     ObjOf([text |-> Str("Filming")])])]),
        episodeCredits |-> ObjOf([yearRange |-> ObjOf([year |-> Num(2019),
                                                       endYear |-> Num(2021)]),
                                  total |-> Num(12)]),
        category |-> ObjOf([text |-> Str("Actor")])])])

\* an edge whose episode range carries no year
NoYearEdge ==
    ObjOf([node |-> ObjOf([episodeCredits |-> ObjOf([yearRange |-> EmptyObj])])])

DriverPages ==
    { [script |-> Null],
      [script |-> InvalidJson],
      PageOf(Arr(<<>>), Arr(<<>>)),
      PageOf(Arr(<<Group(<<NoYearEdge>>)>>), Absent),
      PageOf(Arr(<<Group(<<MovieA>>)>>), Absent),
      PageOf(Arr(<<Group(<<MovieA>>)>>), Arr(<<Group(<<SeriesB>>)>>)) }

\* what is known of one talent: its link, and the page its identifier serves
OwnLink == [t |-> "own"]
Profiles ==
    { [link |-> Null, page |-> Absent], [link |-> NoIdLink, page |-> Absent] } \cup
    { [link |-> OwnLink, page |-> p] : p \in DriverPages }

TalentSet == { Talents[i] : i \in 1..Len(Talents) }

Init ==
    /\ \E prof \in [TalentSet -> Profiles] :
          /\ source = [i \in 1..Len(Talents) |->
                         [TalentID |-> Talents[i],
                          IMDBLink |-> IF prof[Talents[i]].link = OwnLink
                                       THEN LinkOf(Talents[i])
                                       ELSE prof[Talents[i]].link]]
          /\ web = [id \in { IdOf(n) : n \in { m \in TalentSet : prof[m].link = OwnLink } }
                      |-> prof[CHOOSE n \in TalentSet : IdOf(n) = id].page]
    /\ output = <<>>
    /\ run = 1
    /\ pc = "connect"
    /\ pool = "undefined"
    /\ rows = <<>>
    /\ idx = 0
    /\ imdbId = Undefined
    /\ pageHtml = Undefined
    /\ credits = <<>>
    /\ k = 0
    /\ exitCode = -1
    /\ itemState = <<>>
    /\ oplog = <<>>
    /\ prevState = <<>>
    /\ url = NotCalled
    /\ idOut = NotCalled
    /\ html = NotCalled
    /\ normOut = NotCalled

\* One entry of oplog: operation op of run r, for TalentID id (0 when the
\* operation is not for one item), on record n of its credits (0 when it is
\* not an insert), and whether it succeeded.
Op(r, op, id, n, ok) == [run |-> r, op |-> op, id |-> id, n |-> n, ok |-> ok]

Perms(S) ==
    { f \in [1..Cardinality(S) -> S] : \A i, j \in 1..Cardinality(S) : f[i] = f[j] => i = j }

\* a subquery that counts an entity as done only from its second row on
DoneIdsTwoRows(out) ==
    { out[j].TalentId : j \in { i \in 1..Len(out) :
                                  \E h \in 1..(i - 1) : out[h].TalentId = out[i].TalentId } }

\* SELECT DISTINCT tblm.TalentId FROM tblImdbMetaData tblm
DoneIds(out) == { out[j].TalentId : j \in 1..Len(out) }

\* the query without its WHERE clause
PendingRowsAll(src, out) == { src[i] : i \in 1..Len(src) }

\* SELECT ab.TalentID, ab.IMDBLink FROM tblTalentIMDBResume ab
\* WHERE ab.TalentID NOT IN (...)
PendingRows(src, out) ==
    { src[i] : i \in { j \in 1..Len(src) : src[j].TalentID \notin DoneIds(out) } }

\* .input(name, sql.NVarChar(n), v) and .input(name, sql.Int, v): the column
\* value sent for a JavaScript value
SqlNull == [sql |-> "NULL"]
NVarChar(v) ==
    IF IsNullish(v) THEN SqlNull ELSE [sql |-> "nvarchar", v |-> ToStringOf(v).s]
SqlInt(v) ==
    IF IsNullish(v) THEN SqlNull ELSE [sql |-> "int", v |-> v.n]

\* the INSERT with @Type and @Role bound to each other's column
InsertedRowSwapped(TalentID, credit) ==
    [ TalentId     |-> TalentID,
      Title        |-> NVarChar(credit.title),
      TitleUrl     |-> NVarChar(credit.titleUrl),
      fromYear     |-> NVarChar(credit.fromYear),
      toYear       |-> NVarChar(credit.toYear),
      noOfEpisodes |-> SqlInt(credit.noOfEpisodes),
      Type         |-> NVarChar(credit.role),
      Role         |-> NVarChar(credit.type),
      currentProductionStage |-> NVarChar(credit.currentProductionStage) ]

\* the INSERT without a value bound to @TalentId
InsertedRowNoKey(TalentID, credit) ==
    [ TalentId     |-> 0,
      Title        |-> NVarChar(credit.title),
      TitleUrl     |-> NVarChar(credit.titleUrl),
      fromYear     |-> NVarChar(credit.fromYear),
      toYear       |-> NVarChar(credit.toYear),
      noOfEpisodes |-> SqlInt(credit.noOfEpisodes),
      Type         |-> NVarChar(credit.type),
      Role         |-> NVarChar(credit.role),
      currentProductionStage |-> NVarChar(credit.currentProductionStage) ]

\* lines 58-71: the row the INSERT adds for one credit
InsertedRow(TalentID, credit) ==
    [ TalentId     |-> TalentID,
      Title        |-> NVarChar(credit.title),
      TitleUrl     |-> NVarChar(credit.titleUrl),
      fromYear     |-> NVarChar(credit.fromYear),
      toYear       |-> NVarChar(credit.toYear),
      noOfEpisodes |-> SqlInt(credit.noOfEpisodes),
      Type         |-> NVarChar(credit.type),
      Role         |-> NVarChar(credit.role),
      currentProductionStage |-> NVarChar(credit.currentProductionStage) ]

TalentID == rows[idx].TalentID
IMDBLink == rows[idx].IMDBLink

Stage(st) == itemState' = [itemState EXCEPT ![TalentID] = st]

\* the end of one iteration of the for loop over rows: by continue, by the
\* catch of lines 73-77, or by reaching the end of the body
EndIteration ==
    /\ idx' = idx + 1
    /\ pc' = "loop"
    /\ imdbId' = Undefined
    /\ pageHtml' = Undefined
    /\ credits' = <<>>
    /\ k' = 0

\* line 29: pool = await sql.connect(config)
Connect ==
    /\ pc = "connect"
    /\ \/ /\ pool' = "open"
          /\ pc' = "query"
          /\ oplog' = Append(oplog, Op(run, "connect", 0, 0, TRUE))
       \/ /\ pool' = pool              \* raises: catch of line 79, then finally
          /\ pc' = "finally"
          /\ oplog' = Append(oplog, Op(run, "connect", 0, 0, FALSE))
    /\ UNCHANGED <<source, web, output, run, rows, idx, imdbId, pageHtml, credits,
                   k, exitCode, itemState>>
    /\ UNCHANGED <<idVars, normVars, prevState>>

\* lines 31-39: the pending set query
Query ==
    /\ pc = "query"
    /\ \/ /\ \E rs \in Perms(PendingRows(source, output)) : rows' = rs
          /\ idx' = 1
          /\ pc' = "loop"
          /\ itemState' = [id \in { r.TalentID : r \in PendingRows(source, output) }
                             |-> "pending"]
          /\ oplog' = Append(oplog, Op(run, "query", 0, 0, TRUE))
       \/ /\ pc' = "finally"           \* raises: catch of line 79, then finally
          /\ oplog' = Append(oplog, Op(run, "query", 0, 0, FALSE))
          /\ UNCHANGED <<rows, idx, itemState>>
    /\ UNCHANGED <<source, web, output, run, pool, imdbId, pageHtml, credits, k,
                   exitCode>>
    /\ UNCHANGED <<idVars, normVars, prevState>>

\* the loop body without the continue of line 49
ResolveNoContinue ==
    /\ pc = "loop"
    /\ idx <= Len(rows)
    /\ LET id == extractImdbId(IMDBLink)
       IN  \/ /\ IsThrow(id)
              /\ Stage("failed")
              /\ EndIteration
           \/ /\ ~IsThrow(id)
              /\ Stage("identifier-resolved")
              /\ imdbId' = id
              /\ pc' = "fetch"
              /\ UNCHANGED <<idx, pageHtml, credits, k>>
    /\ UNCHANGED <<source, web, output, run, pool, rows, exitCode, oplog>>
    /\ UNCHANGED <<idVars, normVars, prevState>>

\* lines 41-50: the next row, and its identifier
ResolveIdentifier ==
    /\ pc = "loop"
    /\ idx <= Len(rows)
    /\ LET id == extractImdbId(IMDBLink)
       IN  \/ /\ IsThrow(id)           \* caught at line 73
              /\ Stage("failed")
              /\ EndIteration
           \/ /\ ~IsThrow(id)
              /\ ~Truthy(id)           \* line 47: continue
              /\ Stage("skipped")
              /\ EndIteration
           \/ /\ ~IsThrow(id)
              /\ Truthy(id)
              /\ Stage("identifier-resolved")
              /\ imdbId' = id
              /\ pc' = "fetch"
              /\ UNCHANGED <<idx, pageHtml, credits, k>>
    /\ UNCHANGED <<source, web, output, run, pool, rows, exitCode, oplog>>
    /\ UNCHANGED <<idVars, normVars, prevState>>

\* the fetch outside the try of line 44: its exception reaches line 79
FetchUncaught ==
    /\ pc = "fetch"
    /\ \/ /\ imdbId \in DOMAIN web
          /\ pageHtml' = web[imdbId]
          /\ pc' = "normalize"
          /\ Stage("fetched")
          /\ oplog' = Append(oplog, Op(run, "fetch", TalentID, 0, TRUE))
          /\ UNCHANGED <<idx, imdbId, credits, k>>
       \/ /\ Stage("failed")
          /\ oplog' = Append(oplog, Op(run, "fetch", TalentID, 0, FALSE))
          /\ pc' = "finally"
          /\ UNCHANGED <<idx, imdbId, pageHtml, credits, k>>
    /\ UNCHANGED <<source, web, output, run, pool, rows, exitCode>>
    /\ UNCHANGED <<idVars, normVars, prevState>>

\* a fetch that is tried a second time when it fails the first time
FetchRetriesOnce ==
    /\ pc = "fetch"
    /\ \/ /\ imdbId \in DOMAIN web
          /\ pageHtml' = web[imdbId]
          /\ pc' = "normalize"
          /\ Stage("fetched")
          /\ oplog' = Append(oplog, Op(run, "fetch", TalentID, 0, TRUE))
          /\ UNCHANGED <<idx, imdbId, credits, k>>
       \/ /\ \E i \in DOMAIN oplog : oplog[i] = Op(run, "fetch", TalentID, 0, FALSE)
          /\ Stage("failed")
          /\ oplog' = Append(oplog, Op(run, "fetch", TalentID, 0, FALSE))
          /\ EndIteration
       \/ /\ ~\E i \in DOMAIN oplog : oplog[i] = Op(run, "fetch", TalentID, 0, FALSE)
          /\ oplog' = Append(oplog, Op(run, "fetch", TalentID, 0, FALSE))
          /\ UNCHANGED <<pc, idx, imdbId, pageHtml, credits, k, itemState>>
    /\ UNCHANGED <<source, web, output, run, pool, rows, exitCode>>
    /\ UNCHANGED <<idVars, normVars, prevState>>

\* line 52 and fetchImdbPage, lines 86-100
Fetch ==
    /\ pc = "fetch"
    /\ \/ /\ imdbId \in DOMAIN web     \* response.ok
          /\ pageHtml' = web[imdbId]
          /\ pc' = "normalize"
          /\ Stage("fetched")
          /\ oplog' = Append(oplog, Op(run, "fetch", TalentID, 0, TRUE))
          /\ UNCHANGED <<idx, imdbId, credits, k>>
       \/ /\ Stage("failed")           \* fetch rejects, or line 94 throws
          /\ oplog' = Append(oplog, Op(run, "fetch", TalentID, 0, FALSE))
          /\ EndIteration
    /\ UNCHANGED <<source, web, output, run, pool, rows, exitCode>>
    /\ UNCHANGED <<idVars, normVars, prevState>>

\* lines 53-54
Normalize ==
    /\ pc = "normalize"
    /\ LET out == extractFilmographyFromHtml(pageHtml)
       IN  \/ /\ IsThrow(out)          \* caught at line 73
              /\ Stage("failed")
              /\ EndIteration
           \/ /\ ~IsThrow(out)
              /\ credits' = out.credits
              /\ k' = 1
              /\ pc' = "insert"
              /\ Stage("normalized")
              /\ UNCHANGED <<idx, imdbId, pageHtml>>
    /\ UNCHANGED <<source, web, output, run, pool, rows, exitCode, oplog>>
    /\ UNCHANGED <<idVars, normVars, prevState>>

\* an INSERT that raises after the row is written
InsertWritesThenRaises ==
    /\ pc = "insert"
    /\ k <= Len(credits)
    /\ \/ /\ output' = Append(output, InsertedRow(TalentID, credits[k]))
          /\ k' = k + 1
          /\ oplog' = Append(oplog, Op(run, "insert", TalentID, k, TRUE))
          /\ UNCHANGED <<pc, idx, imdbId, pageHtml, credits, itemState>>
       \/ /\ Stage("failed")
          /\ oplog' = Append(oplog, Op(run, "insert", TalentID, k, FALSE))
          /\ EndIteration
          /\ output' = Append(output, InsertedRow(TalentID, credits[k]))
    /\ UNCHANGED <<source, web, run, pool, rows, exitCode>>
    /\ UNCHANGED <<idVars, normVars, prevState>>

\* the loop over credits running from the last credit to the first
InsertReversed ==
    /\ pc = "insert"
    /\ k <= Len(credits)
    /\ \/ /\ output' = Append(output, InsertedRow(TalentID, credits[Len(credits) + 1 - k]))
          /\ k' = k + 1
          /\ oplog' = Append(oplog, Op(run, "insert", TalentID, k, TRUE))
          /\ UNCHANGED <<pc, idx, imdbId, pageHtml, credits, itemState>>
       \/ /\ Stage("failed")
          /\ oplog' = Append(oplog, Op(run, "insert", TalentID, k, FALSE))
          /\ EndIteration
          /\ UNCHANGED output
    /\ UNCHANGED <<source, web, run, pool, rows, exitCode>>
    /\ UNCHANGED <<idVars, normVars, prevState>>

\* an INSERT failure that removes the rows already written for the entity
InsertRollsBack ==
    /\ pc = "insert"
    /\ k <= Len(credits)
    /\ \/ /\ output' = Append(output, InsertedRow(TalentID, credits[k]))
          /\ k' = k + 1
          /\ oplog' = Append(oplog, Op(run, "insert", TalentID, k, TRUE))
          /\ UNCHANGED <<pc, idx, imdbId, pageHtml, credits, itemState>>
       \/ /\ Stage("failed")
          /\ oplog' = Append(oplog, Op(run, "insert", TalentID, k, FALSE))
          /\ EndIteration
          /\ output' = SelectSeq(output, LAMBDA row : row.TalentId # TalentID)
    /\ UNCHANGED <<source, web, run, pool, rows, exitCode>>
    /\ UNCHANGED <<idVars, normVars, prevState>>

\* lines 56-72: one iteration of the loop over credits
Insert ==
    /\ pc = "insert"
    /\ k <= Len(credits)
    /\ \/ /\ output' = Append(output, InsertedRow(TalentID, credits[k]))
          /\ k' = k + 1
          /\ oplog' = Append(oplog, Op(run, "insert", TalentID, k, TRUE))
          /\ UNCHANGED <<pc, idx, imdbId, pageHtml, credits, itemState>>
       \/ /\ Stage("failed")           \* the INSERT raises: caught at line 73
          /\ oplog' = Append(oplog, Op(run, "insert", TalentID, k, FALSE))
          /\ EndIteration
          /\ UNCHANGED output
    /\ UNCHANGED <<source, web, run, pool, rows, exitCode>>
    /\ UNCHANGED <<idVars, normVars, prevState>>

\* an end of the try block that writes a row of defaults for a WorkItem
\* without credits, marking the entity as done
ItemDoneMarksEmpty ==
    /\ pc = "insert"
    /\ k > Len(credits)
    /\ Stage("persisted")
    /\ EndIteration
    /\ IF credits = <<>>
       THEN /\ output' = Append(output, InsertedRow(TalentID,
                             [title |-> Str(""), titleUrl |-> Str(""), fromYear |-> Str(""),
                              toYear |-> Null, noOfEpisodes |-> Num(0), type |-> Str(""),
                              role |-> Str(""), currentProductionStage |-> Str("")]))
            /\ oplog' = Append(oplog, Op(run, "insert", TalentID, 0, TRUE))
       ELSE UNCHANGED <<output, oplog>>
    /\ UNCHANGED <<source, web, run, pool, rows, exitCode>>
    /\ UNCHANGED <<idVars, normVars, prevState>>

\* line 72: the loop over credits is exhausted, the try block ends
ItemDone ==
    /\ pc = "insert"
    /\ k > Len(credits)
    /\ Stage("persisted")
    /\ EndIteration
    /\ UNCHANGED <<source, web, output, run, pool, rows, exitCode, oplog>>
    /\ UNCHANGED <<idVars, normVars, prevState>>

\* line 78: the loop over rows is exhausted
LoopEnd ==
    /\ pc = "loop"
    /\ idx > Len(rows)
    /\ pc' = "finally"
    /\ UNCHANGED <<source, web, output, run, pool, rows, idx, imdbId, pageHtml,
                   credits, k, exitCode, itemState, oplog>>
    /\ UNCHANGED <<idVars, normVars, prevState>>

\* processAllExistingImdbLinks without its finally block
FinallyNoClose ==
    /\ pc = "finally"
    /\ pc' = "main"
    /\ UNCHANGED <<source, web, output, run, pool, rows, idx, imdbId, pageHtml,
                   credits, k, exitCode, itemState, oplog>>
    /\ UNCHANGED <<idVars, normVars, prevState>>

\* lines 81-83: if (pool) await pool.close()
Finally ==
    /\ pc = "finally"
    /\ \/ /\ pool = "open"
          /\ pool' = "closed"
          /\ oplog' = Append(oplog, Op(run, "close", 0, 0, TRUE))
       \/ /\ pool = "undefined"
          /\ UNCHANGED <<pool, oplog>>
    /\ pc' = "main"
    /\ UNCHANGED <<source, web, output, run, rows, idx, imdbId, pageHtml, credits,
                   k, exitCode, itemState>>
    /\ UNCHANGED <<idVars, normVars, prevState>>

\* lines 154-158: processAllExistingImdbLinks has returned
Exit ==
    /\ pc = "main"
    /\ exitCode' = 0
    /\ pc' = "exited"
    /\ UNCHANGED <<source, web, output, run, pool, rows, idx, imdbId, pageHtml,
                   credits, k, itemState, oplog>>
    /\ UNCHANGED <<idVars, normVars, prevState>>

\* the program is started again
Restart ==
    /\ pc = "exited"
    /\ run < MaxRuns
    /\ run' = run + 1
    /\ pc' = "connect"
    /\ pool' = "undefined"
    /\ rows' = <<>>
    /\ idx' = 0
    /\ exitCode' = -1
    /\ itemState' = <<>>
    /\ prevState' = itemState
    /\ UNCHANGED <<source, web, output, imdbId, pageHtml, credits, k, oplog>>
    /\ UNCHANGED <<idVars, normVars>>

Next ==
    \/ Connect
    \/ Query
    \/ ResolveIdentifier
    \/ Fetch
    \/ Normalize
    \/ Insert
    \/ ItemDone
    \/ LoopEnd
    \/ Finally
    \/ Exit
    \/ Restart

vars == <<url, idOut, html, normOut, source, web, output, run, pc, pool, rows,
          idx, imdbId, pageHtml, credits, k, exitCode, itemState, oplog,
          prevState>>

SpecId == InitId /\ [][NextId]_vars

SpecNorm == InitNorm /\ [][NextNorm]_vars

Spec == Init /\ [][Next]_vars

(***************************************************************************)
(* Properties of the Sync Driver (specification Spec).                     *)
(***************************************************************************)
Terminal == { "skipped", "failed", "persisted" }

OpIdx == DOMAIN oplog

\* the run acquired its pending set
QueryOk(r) == \E i \in OpIdx : oplog[i] = Op(r, "query", 0, 0, TRUE)

\* some operation of run r failed
SomeOpFailed(r) == \E i \in OpIdx : oplog[i].run = r /\ ~oplog[i].ok

\* run r issued a successful insert for TalentID id
WroteIn(r, id) ==
    \E i \in OpIdx : /\ oplog[i].run = r /\ oplog[i].op = "insert"
                     /\ oplog[i].id = id /\ oplog[i].ok

\* an operation of run r for TalentID id failed
ItemOpFailed(r, id) ==
    \E i \in OpIdx : oplog[i].run = r /\ oplog[i].id = id /\ ~oplog[i].ok

CountOps(r, op) == Cardinality({ i \in OpIdx : oplog[i].run = r /\ oplog[i].op = op })

RowIds == { rows[i].TalentID : i \in 1..Len(rows) }

PosInRows(id) == CHOOSE i \in 1..Len(rows) : rows[i].TalentID = id

RowsFor(id) == SelectSeq(output, LAMBDA row : row.TalentId = id)

LinkFor(id) == source[CHOOSE i \in 1..Len(source) : source[i].TalentID = id].IMDBLink

HasPage(id) ==
    /\ ~IsThrow(extractImdbId(LinkFor(id)))
    /\ extractImdbId(LinkFor(id)) \in DOMAIN web

\* what the normalizer makes of the page of TalentID id: its outcome
NormOutcome(id) == extractFilmographyFromHtml(web[extractImdbId(LinkFor(id))])

\* the records the normalizer produces for TalentID id
NormCredits(id) ==
    IF HasPage(id) /\ ~IsThrow(NormOutcome(id)) THEN NormOutcome(id).credits ELSE <<>>

\* in this run the fetch of id succeeded, its page was normalized without an
\* exception and none of its inserts failed
Succeeded(id) ==
    /\ oplog # <<>>
    /\ \E i \in OpIdx : oplog[i] = Op(run, "fetch", id, 0, TRUE)
    /\ ~IsThrow(NormOutcome(id))
    /\ ~ItemOpFailed(run, id)

\* C1: in a run whose pending set was acquired, a failure of the fetch, the
\* normalization or an insert of one WorkItem does not stop the batch: when
\* the process has exited every WorkItem of the pending set is in a terminal
\* state, every WorkItem whose fetch, normalization and inserts all succeeded
\* is persisted with one row per record, and the exit status is 0.
C1_FailureIsolation ==
    (pc = "exited" /\ QueryOk(run)) =>
        /\ DOMAIN itemState = RowIds
        /\ \A id \in RowIds : itemState[id] \in Terminal
        /\ \A id \in RowIds :
              Succeeded(id) => /\ itemState[id] = "persisted"
                               /\ Len(RowsFor(id)) = Len(NormCredits(id))
        /\ exitCode = 0

\* a failed WorkItem is followed, in the order of the pending set, by a
\* WorkItem that was persisted with at least one row
C1_Witness ==
    /\ pc = "exited"
    /\ \E i, j \in 1..Len(rows) :
          /\ i < j
          /\ itemState[rows[i].TalentID] = "failed"
          /\ itemState[rows[j].TalentID] = "persisted"
          /\ Len(RowsFor(rows[j].TalentID)) >= 1

\* C2: when establishing the connection or the pending set query fails, the
\* run fetches and inserts nothing and the process exits with a status other
\* than 0.
C2_SetupFailureExitsNonZero ==
    (pc = "exited" /\ ~QueryOk(run)) =>
        /\ CountOps(run, "fetch") = 0
        /\ CountOps(run, "insert") = 0
        /\ exitCode # 0

C4_FailedHasNoRow ==
    pc = "exited" =>
        \A id \in DOMAIN itemState :
            itemState[id] = "failed" => ~WroteIn(run, id) /\ RowsFor(id) = <<>>

\* C4 as amended: a WorkItem that ends a run in the failed state before any
\* of its inserts succeeded (its fetch, its normalization or its first insert
\* raised) has no output row, and is in the pending set of the next run.
C4_FailedBeforeFirstRowStaysPending ==
    /\ \A id \in DOMAIN itemState :
          (itemState[id] = "failed" /\ ~WroteIn(run, id)) => RowsFor(id) = <<>>
    /\ (run >= 2 /\ QueryOk(run)) =>
          \A id \in DOMAIN prevState :
              (prevState[id] = "failed" /\ ~WroteIn(run - 1, id)) => id \in RowIds

\* the pending set of the second run holds a WorkItem whose first insert
\* failed in the first run
C4_Witness ==
    /\ run = 2
    /\ QueryOk(2)
    /\ \E id \in RowIds : \E i \in OpIdx : oplog[i] = Op(1, "insert", id, 1, FALSE)

\* C5: in every run the connection is acquired at most once; when it was
\* acquired it is released exactly once before the process exits, whatever
\* failed in between, and when it was not acquired nothing is released; a
\* query or an insert is issued only between the acquisition and the release.
C5_ConnectionScoped ==
    /\ \A r \in 1..run :
          /\ CountOps(r, "connect") <= 1
          /\ CountOps(r, "close") <= 1
    /\ pc = "exited" =>
          IF \E i \in OpIdx : oplog[i] = Op(run, "connect", 0, 0, TRUE)
          THEN CountOps(run, "close") = 1 /\ pool = "closed"
          ELSE CountOps(run, "close") = 0 /\ pool = "undefined"
    /\ \A j \in OpIdx :
          oplog[j].op \in { "query", "insert" } =>
              /\ \E i \in 1..(j - 1) : oplog[i] = Op(oplog[j].run, "connect", 0, 0, TRUE)
              /\ \A i \in 1..(j - 1) :
                    ~(oplog[i].run = oplog[j].run /\ oplog[i].op = "close")

\* the second run has exited: the first run lost its pending set query and
\* released the connection, the second released it after an item failed
C5_Witness ==
    /\ run = 2
    /\ pc = "exited"
    /\ \E i \in OpIdx : oplog[i] = Op(1, "query", 0, 0, FALSE)
    /\ CountOps(1, "close") = 1
    /\ \E id \in RowIds : itemState[id] = "failed"
    /\ CountOps(2, "close") = 1

\* the WorkItem at position i of rows has been taken up by the loop
TakenUp(i) == i < idx \/ (i = idx /\ pc \in { "fetch", "normalize", "insert" })

\* C6: WorkItems are handled one after the other in the order of the pending
\* set: the items that left the pending state are those before the position
\* of the loop, the operations of the run are ordered as their items are in
\* rows, each insert follows the successful fetch of its item, the inserts of
\* one item are issued for records 1, 2, ... in this order, and the rows of
\* the item are a prefix of the normalizer's output, all of it when the item
\* is persisted.
C6_SequentialInOrder ==
    /\ \A i \in 1..Len(rows) : (itemState[rows[i].TalentID] # "pending") <=> TakenUp(i)
    /\ \A i, j \in OpIdx :
          (i < j /\ oplog[i].run = run /\ oplog[j].run = run
                 /\ oplog[i].id # 0 /\ oplog[j].id # 0)
              => PosInRows(oplog[i].id) <= PosInRows(oplog[j].id)
    /\ \A j \in OpIdx :
          oplog[j].op = "insert" =>
              /\ \E i \in 1..(j - 1) : oplog[i] = Op(oplog[j].run, "fetch", oplog[j].id, 0, TRUE)
              /\ \A m \in 1..(oplog[j].n - 1) :
                    \E i \in 1..(j - 1) : oplog[i] = Op(oplog[j].run, "insert", oplog[j].id, m, TRUE)
              /\ \A i \in 1..(j - 1) :
                    ~(oplog[i].run = oplog[j].run /\ oplog[i].op = "insert"
                        /\ oplog[i].id = oplog[j].id /\ oplog[i].n >= oplog[j].n)
    /\ \A id \in RowIds :
          /\ Len(RowsFor(id)) <= Len(NormCredits(id))
          /\ \A m \in 1..Len(RowsFor(id)) :
                RowsFor(id)[m] = InsertedRow(id, NormCredits(id)[m])
          /\ itemState[id] = "persisted" => Len(RowsFor(id)) = Len(NormCredits(id))

\* both WorkItems of the pending set were persisted, the first with two rows
C6_Witness ==
    /\ pc = "exited"
    /\ Len(rows) = 2
    /\ itemState[rows[1].TalentID] = "persisted"
    /\ itemState[rows[2].TalentID] = "persisted"
    /\ Len(RowsFor(rows[1].TalentID)) = 2
    /\ Len(RowsFor(rows[2].TalentID)) >= 1

\* the column value the output table holds for a field of a record
Column(v) ==
    CASE v.t = "string" -> [sql |-> "nvarchar", v |-> v.s]
      [] v.t = "number" -> [sql |-> "int", v |-> v.n]
      [] OTHER          -> SqlNull

\* the output row of the record c of entity id
RowOfRecord(id, c) ==
    [ TalentId |-> id, Title |-> Column(c.title), TitleUrl |-> Column(c.titleUrl),
      fromYear |-> Column(c.fromYear), toYear |-> Column(c.toYear),
      noOfEpisodes |-> Column(c.noOfEpisodes), Type |-> Column(c.type),
      Role |-> Column(c.role),
      currentProductionStage |-> Column(c.currentProductionStage) ]

\* the one row of the page with the released edge "Movie A"
MovieARow(id) ==
    [ TalentId |-> id,
      Title |-> [sql |-> "nvarchar", v |-> "Movie A"],
      TitleUrl |-> [sql |-> "nvarchar", v |-> "https://www.imdb.com/title/tt9999/"],
      fromYear |-> [sql |-> "nvarchar", v |-> "2020"],
      toYear |-> SqlNull,
      noOfEpisodes |-> [sql |-> "int", v |-> 0],
      Type |-> [sql |-> "nvarchar", v |-> "Movie"],
      Role |-> [sql |-> "nvarchar", v |-> "Hero"],
      currentProductionStage |-> [sql |-> "nvarchar", v |-> ""] ]

MovieAPage == PageOf(Arr(<<Group(<<MovieA>>)>>), Absent)

\* C7: for a WorkItem that has an identifier, whose fetch succeeded and none
\* of whose inserts failed, the rows of its entity, once the item is done,
\* are exactly the normalizer's records for the page, one row per record in
\* the record's order, with the entity's key and the record's field values;
\* the page with the one released edge "Movie A" yields exactly the one row
\* of the example.
C7_RowsAreTheRecords ==
    \A id \in DOMAIN itemState :
        ( /\ itemState[id] \in Terminal
          /\ \E i \in OpIdx : oplog[i] = Op(run, "fetch", id, 0, TRUE)
          /\ ~ItemOpFailed(run, id) )
        => /\ RowsFor(id) = [m \in 1..Len(NormCredits(id)) |->
                               RowOfRecord(id, NormCredits(id)[m])]
           /\ web[extractImdbId(LinkFor(id))] = MovieAPage
                 => RowsFor(id) = <<MovieARow(id)>>

\* entity 7 serves the page of the example and its item is persisted
C7_Witness ==
    /\ 7 \in DOMAIN itemState
    /\ itemState[7] = "persisted"
    /\ HasPage(7)
    /\ web[IdOf(7)] = MovieAPage
    /\ RowsFor(7) = <<MovieARow(7)>>

(***************************************************************************)
(* Properties of the Identifier Extractor (specification SpecId).          *)
(***************************************************************************)
\* c[i..i+5] is "/name/" and c[i+6..j] is a token: "nm", then the digits
\* c[i+8..j], at least one, up to the last digit of the run
HasTokenAt(c, i, j) ==
    /\ i + 8 <= j
    /\ j <= Len(c)
    /\ SubSeq(c, i, i + 5) = <<"/", "n", "a", "m", "e", "/">>
    /\ c[i + 6] = "n"
    /\ c[i + 7] = "m"
    /\ \A q \in (i + 8)..j : IsDigit(c[q])
    /\ (j < Len(c) => ~IsDigit(c[j + 1]))

HasToken(c) == \E i \in 1..Len(c) : \E j \in 1..Len(c) : HasTokenAt(c, i, j)

\* C8: for a string, null or undefined, extractImdbId does not throw; it
\* returns a value only for a string that contains "/name/" immediately
\* followed by a token, and the value is such a token of the string; a string
\* that contains one gets a value; everything else gets null.
C8_ExtractImdbId ==
    (idOut # NotCalled /\ url.t \in { "string", "null", "undefined" }) =>
        /\ ~IsThrow(idOut)
        /\ idOut # Null =>
              /\ url.t = "string"
              /\ idOut.t = "string"
              /\ \E i \in 1..Len(url.c) : \E j \in 1..Len(url.c) :
                    HasTokenAt(url.c, i, j) /\ idOut.c = SubSeq(url.c, i + 6, j)
        /\ (url.t = "string" /\ HasToken(url.c)) => idOut # Null

\* "/name/nm42" gave "nm42"
C8_Witness ==
    /\ url = Chars(<<"/", "n", "a", "m", "e", "/", "n", "m", "4", "2">>)
    /\ idOut = Chars(<<"n", "m", "4", "2">>)

(***************************************************************************)
(* Properties of the Payload Normalizer (specification SpecNorm).          *)
(***************************************************************************)
Payload == html.script.value

IsDecoded == html.script.t = "jsontext" /\ html.script.valid

Container(name) == Opt(MainColumnData(Payload), name)

IsList(v) == v.t = "array"

\* the edges of one group of a container
GroupEdges(g) ==
    IF IsList(Opt(Opt(g, "credits"), "edges")) THEN Opt(Opt(g, "credits"), "edges").a
    ELSE <<>>

\* the edges of the first n groups of a container, in source order
RECURSIVE EdgesUpTo(_, _)
EdgesUpTo(gs, n) ==
    IF n = 0 THEN <<>> ELSE EdgesUpTo(gs, n - 1) \o GroupEdges(gs[n])

ContainerEdges(name) ==
    IF IsList(Container(name))
    THEN EdgesUpTo(Container(name).a, Len(Container(name).a))
    ELSE <<>>

AllEdges ==
    ContainerEdges("releasedPrimaryCredits") \o ContainerEdges("unreleasedPrimaryCredits")

\* the payload departs from the expected shape by absence only: each
\* container is a list or absent, and so is the edges field of each group
ListOrAbsent(v) == IsNullish(v) \/ IsList(v)

GroupsWellFormed(name) ==
    /\ ListOrAbsent(Container(name))
    /\ IsList(Container(name)) =>
          \A n \in 1..Len(Container(name).a) :
              ListOrAbsent(Opt(Opt(Container(name).a[n], "credits"), "edges"))

WellFormed ==
    /\ IsDecoded
    /\ GroupsWellFormed("releasedPrimaryCredits")
    /\ GroupsWellFormed("unreleasedPrimaryCredits")

TitleTextOf(edge) ==
    Or(Opt(Opt(Opt(Opt(edge, "node"), "title"), "titleText"), "text"), Str(""))

\* C9: for a page whose decoded payload has a released and an unreleased
\* container, the normalizer returns one record per edge of the two
\* containers, the released edges in source order, then the unreleased ones.
C9_OneRecordPerEdgeInOrder ==
    ( /\ normOut # NotCalled
      /\ WellFormed
      /\ IsList(Container("releasedPrimaryCredits"))
      /\ IsList(Container("unreleasedPrimaryCredits")) )
    => /\ normOut.t = "return"
       /\ Len(normOut.credits) = Len(AllEdges)
       /\ \A m \in 1..Len(AllEdges) : normOut.credits[m].title = TitleTextOf(AllEdges[m])

\* C10: for a decoded payload that departs from the expected shape by
\* absence only, whatever fields the nodes lack, the normalizer does not
\* raise, emits one record for every edge and writes nothing to the console.
C10_NeverRaisesOnAbsentFields ==
    (normOut # NotCalled /\ WellFormed)
    => /\ normOut.t = "return"
       /\ Len(normOut.credits) = Len(AllEdges)
       /\ normOut.console = <<>>

\* Apart from the exception of line 142, C9 and C10 do hold: whenever the
\* normalizer returns for such a payload, it returns one record per edge, in
\* the order of C9, and has written nothing to the console.
ReturnedRecordsFollowEdges ==
    (normOut # NotCalled /\ WellFormed /\ normOut.t = "return")
    => /\ Len(normOut.credits) = Len(AllEdges)
       /\ \A m \in 1..Len(AllEdges) : normOut.credits[m].title = TitleTextOf(AllEdges[m])
       /\ normOut.console = <<>>

\* and it raises for such a payload only when some edge has an episode range
\* or a release year object without the field year
RaisesOnlyForRangeWithoutYear ==
    (normOut # NotCalled /\ WellFormed /\ normOut.t = "throw")
    => \E m \in 1..Len(AllEdges) :
          LET node == Opt(AllEdges[m], "node")
              er == Opt(Opt(node, "episodeCredits"), "yearRange")
              ry == Opt(Opt(node, "title"), "releaseYear")
          IN  \/ (~IsNullish(er) /\ IsNullish(Prop(er, "year")))
              \/ (~IsNullish(ry) /\ IsNullish(Prop(ry, "year")))

\* the fields of the node of an edge that the loop reads
NodeOf(edge) == Opt(edge, "node")
TitleText(edge) == Opt(Opt(Opt(NodeOf(edge), "title"), "titleText"), "text")
TitleId(edge) == Opt(Opt(NodeOf(edge), "title"), "id")
RangeYear(edge) == Opt(Opt(Opt(NodeOf(edge), "episodeCredits"), "yearRange"), "year")
ReleaseYear(edge) == Opt(Opt(Opt(NodeOf(edge), "title"), "releaseYear"), "year")
RangeEndYear(edge) == Opt(Opt(Opt(NodeOf(edge), "episodeCredits"), "yearRange"), "endYear")
EpisodeTotal(edge) == Opt(Opt(NodeOf(edge), "episodeCredits"), "total")
TitleType(edge) == Opt(Opt(Opt(NodeOf(edge), "title"), "titleType"), "text")
CharacterName(edge) == Opt(OptFirst(Opt(NodeOf(edge), "characters")), "name")
CategoryText(edge) == Opt(Opt(NodeOf(edge), "category"), "text")
StageText(edge) ==
    Opt(Opt(Opt(Opt(NodeOf(edge), "title"), "productionStatus"),
            "currentProductionStage"), "text")

\* each field of record c whose source is absent from the edge has its default
DefaultsWhereAbsent(edge, c) ==
    /\ IsNullish(TitleText(edge)) => c.title = Str("")
    /\ IsNullish(TitleId(edge)) => c.titleUrl = Str("")
    /\ (IsNullish(RangeYear(edge)) /\ IsNullish(ReleaseYear(edge))) => c.fromYear = Str("")
    /\ IsNullish(RangeEndYear(edge)) => c.toYear = Null
    /\ IsNullish(EpisodeTotal(edge)) => c.noOfEpisodes = Num(0)
    /\ IsNullish(TitleType(edge)) => c.type = Str("")
    /\ (IsNullish(CharacterName(edge)) /\ IsNullish(CategoryText(edge))) => c.role = Str("")
    /\ IsNullish(StageText(edge)) => c.currentProductionStage = Str("")

\* the record of the example: the title "Show X" and seven defaults
ShowXRecord ==
    [ t |-> "credit", title |-> Str("Show X"), titleUrl |-> Str(""),
      fromYear |-> Str(""), toYear |-> Null, noOfEpisodes |-> Num(0),
      type |-> Str(""), role |-> Str(""), currentProductionStage |-> Str("") ]

\* C11: for a decoded payload that departs from the expected shape by absence
\* only, the normalizer returns a record for every edge, and in the record of
\* each edge every field whose source is absent from the node has its
\* default, whatever other fields the node carries; the record of a node that
\* carries only the title text "Show X" is that title and seven defaults.
C11_AbsentFieldsGetDefaults ==
    (normOut # NotCalled /\ WellFormed)
    => /\ normOut.t = "return"
       /\ Len(normOut.credits) = Len(AllEdges)
       /\ \A m \in 1..Len(AllEdges) :
             /\ DefaultsWhereAbsent(AllEdges[m], normOut.credits[m])
             /\ AllEdges[m] = TitledEdge("Show X") => normOut.credits[m] = ShowXRecord

\* Apart from the exception of line 142, C11 does hold: whenever the
\* normalizer returns, absent fields have their defaults.
ReturnedRecordsHaveDefaults ==
    (normOut # NotCalled /\ WellFormed /\ normOut.t = "return")
    => \A m \in 1..Len(AllEdges) :
          /\ DefaultsWhereAbsent(AllEdges[m], normOut.credits[m])
          /\ AllEdges[m] = TitledEdge("Show X") => normOut.credits[m] = ShowXRecord

\* the page whose released edge is the node of the example was normalized
ShowXNormalized ==
    /\ normOut # NotCalled
    /\ WellFormed
    /\ Len(AllEdges) >= 1
    /\ AllEdges[1] = TitledEdge("Show X")
    /\ normOut.t = "return"
    /\ normOut.credits[1] = ShowXRecord

\* the start year of the rule: the episode range year when present, else the
\* release year when present, else the empty string, as a string
StartYearByRule(edge) ==
    IF ~IsNullish(RangeYear(edge)) THEN ToStringOf(RangeYear(edge))
    ELSE IF ~IsNullish(ReleaseYear(edge)) THEN ToStringOf(ReleaseYear(edge))
    ELSE Str("")

\* C17: for a decoded payload that departs from the expected shape by absence
\* only, whichever of the episode range, its year, the release year object
\* and its year the nodes carry, the normalizer returns a record for every
\* edge whose startYear is the start year of the rule.
C17_StartYearPrecedence ==
    (normOut # NotCalled /\ WellFormed)
    => /\ normOut.t = "return"
       /\ Len(normOut.credits) = Len(AllEdges)
       /\ \A m \in 1..Len(AllEdges) :
             normOut.credits[m].fromYear = StartYearByRule(AllEdges[m])

\* Apart from the exception of line 142, C17 does hold: whenever the
\* normalizer returns, startYear follows the rule.
ReturnedStartYearFollowsRule ==
    (normOut # NotCalled /\ WellFormed /\ normOut.t = "return")
    => \A m \in 1..Len(AllEdges) :
          normOut.credits[m].fromYear = StartYearByRule(AllEdges[m])

\* the normalizer raised on a node whose episode range has an end year and no
\* year, the release year being present
RaisedWithReleaseYearPresent ==
    /\ normOut # NotCalled
    /\ WellFormed
    /\ normOut.t = "throw"
    /\ Len(AllEdges) >= 1
    /\ IsNullish(RangeYear(AllEdges[1]))
    /\ ~IsNullish(RangeEndYear(AllEdges[1]))
    /\ ~IsNullish(ReleaseYear(AllEdges[1]))

(***************************************************************************)
(* Further properties of the Sync Driver (specification Spec).             *)
(***************************************************************************)
\* the page has no structured-data block, or a block that does not decode
Malformed(page) ==
    \/ ~Truthy(page.script)
    \/ (page.script.t = "jsontext" /\ ~page.script.valid)

PageFor(id) == web[extractImdbId(LinkFor(id))]

FetchedOk(r, id) == \E i \in OpIdx : oplog[i] = Op(r, "fetch", id, 0, TRUE)

InsertAttempts(r, id) ==
    { i \in OpIdx : oplog[i].run = r /\ oplog[i].op = "insert" /\ oplog[i].id = id }

\* C12: for a document without the structured-data block, or with a block
\* that does not decode, the normalizer returns the empty sequence, reports
\* the condition as an error on the console and does not raise; a WorkItem
\* for which such a document was fetched never fails, gets no insert, and
\* the loop goes on to the WorkItems after it: when the process has exited
\* the item is persisted with no row and every WorkItem is in a terminal
\* state.
C12_MalformedDocumentIsEmpty ==
    \A id \in DOMAIN itemState :
        (FetchedOk(run, id) /\ Malformed(PageFor(id))) =>
            /\ extractFilmographyFromHtml(PageFor(id)) \in
                   { Return(<<>>, <<ErrNoBlock>>), Return(<<>>, <<ErrBadJson>>) }
            /\ InsertAttempts(run, id) = {}
            /\ itemState[id] \in { "fetched", "normalized", "persisted" }
            /\ (pc = "insert" /\ TalentID = id) => credits = <<>>
            /\ pc = "exited" =>
                  /\ itemState[id] = "persisted"
                  /\ \A other \in RowIds : itemState[other] \in Terminal

\* the first WorkItem served a block that does not decode and got no insert;
\* the WorkItem after it was persisted with a row
C12_Witness ==
    /\ pc = "exited"
    /\ Len(rows) = 2
    /\ FetchedOk(run, rows[1].TalentID)
    /\ PageFor(rows[1].TalentID) = [script |-> InvalidJson]
    /\ itemState[rows[1].TalentID] = "persisted"
    /\ InsertAttempts(run, rows[1].TalentID) = {}
    /\ itemState[rows[2].TalentID] = "persisted"
    /\ WroteIn(run, rows[2].TalentID)

\* the identifier of the link of TalentID id is absent
NoIdentifier(id) == extractImdbId(LinkFor(id)) = Null

\* this step appended an operation to oplog
Logged == Len(oplog') = Len(oplog) + 1
LastOp == oplog'[Len(oplog')]

\* the moves of one WorkItem from one state of a step to the next
ItemMove(id) ==
    LET from == itemState[id]
        to   == itemState'[id]
    IN  \/ to = from
        \/ /\ from = "pending"
           /\ to = "identifier-resolved"
           /\ ~NoIdentifier(id)
        \/ /\ from = "pending"
           /\ to = "skipped"
           /\ NoIdentifier(id)
        \/ /\ from = "identifier-resolved"
           /\ to = "fetched"
           /\ Logged /\ LastOp = Op(run, "fetch", id, 0, TRUE)
        \/ /\ from = "identifier-resolved"
           /\ to = "failed"
           /\ Logged /\ LastOp = Op(run, "fetch", id, 0, FALSE)
        \/ /\ from = "fetched"
           /\ to = "normalized"
           /\ ~IsThrow(NormOutcome(id))
        \/ /\ from = "fetched"
           /\ to = "failed"
           /\ IsThrow(NormOutcome(id))
        \/ /\ from = "normalized"
           /\ to = "persisted"
           /\ ~Logged
        \/ /\ from = "normalized"
           /\ to = "failed"
           /\ Logged /\ LastOp.op = "insert" /\ LastOp.id = id /\ ~LastOp.ok

\* a fetch is issued only for a WorkItem whose identifier was resolved, an
\* insert only for a WorkItem that was normalized after a successful fetch
OpAllowed ==
    Logged =>
        /\ LastOp.op = "fetch" =>
              /\ itemState[LastOp.id] = "identifier-resolved"
              /\ ~NoIdentifier(LastOp.id)
        /\ LastOp.op = "insert" =>
              /\ itemState[LastOp.id] = "normalized"
              /\ ~NoIdentifier(LastOp.id)
              /\ FetchedOk(run, LastOp.id)

ItemStep ==
    /\ \A id \in (DOMAIN itemState) \cap (DOMAIN itemState') : ItemMove(id)
    /\ OpAllowed

\* C13: in every step of a run each WorkItem stays where it is or moves one
\* stage along pending, identifier-resolved, fetched, normalized, persisted;
\* it leaves this path to skipped only from pending and only when its link
\* has no identifier, and to failed only when its fetch, the normalization
\* of its page or one of its inserts raises; nothing leaves skipped, failed
\* or persisted; a fetch is issued only for an item with an identifier, an
\* insert only for an item with an identifier whose fetch succeeded.
C13_ItemStateMachine == [][ItemStep]_vars

\* the earlier run skipped one WorkItem and lost the other to a failure; in
\* this run the item that had failed was persisted with a row
C13_Witness ==
    /\ run = 2
    /\ pc = "exited"
    /\ \E a, b \in TalentSet :
          /\ a \in DOMAIN prevState /\ b \in DOMAIN prevState
          /\ prevState[a] = "skipped"
          /\ prevState[b] = "failed"
          /\ b \in DOMAIN itemState
          /\ itemState[b] = "persisted"
          /\ WroteIn(2, b)

\* the positions in oplog of the inserts that raised
FailedInserts == { j \in OpIdx : oplog[j].op = "insert" /\ ~oplog[j].ok }

\* C14: when the insert of record n of a WorkItem raises, the inserts of its
\* records 1..n-1 succeeded before it and their n-1 rows are in the output
\* table from then on, no insert of that run for that WorkItem follows, the
\* item is failed, the loop has gone on to the position after it, and when
\* the process has exited every WorkItem of the pending set is in a terminal
\* state.
C14_PartialRowsRemain ==
    \A j \in FailedInserts :
        LET r  == oplog[j].run
            id == oplog[j].id
            n  == oplog[j].n
        IN  /\ \A m \in 1..(n - 1) :
                  /\ \E i \in 1..(j - 1) : oplog[i] = Op(r, "insert", id, m, TRUE)
                  /\ Len(RowsFor(id)) >= m
                  /\ RowsFor(id)[m] = InsertedRow(id, NormCredits(id)[m])
            /\ \A i \in OpIdx :
                  (i > j /\ oplog[i].run = r /\ oplog[i].op = "insert") => oplog[i].id # id
            /\ r = run =>
                  /\ Len(RowsFor(id)) = n - 1
                  /\ itemState[id] = "failed"
                  /\ idx > PosInRows(id)
                  /\ pc = "exited" => \A other \in RowIds : itemState[other] \in Terminal

\* the second insert of the first WorkItem raised and its first row is in
\* the output table; the WorkItem after it was persisted with a row
C14_Witness ==
    /\ pc = "exited"
    /\ Len(rows) = 2
    /\ \E j \in FailedInserts : oplog[j] = Op(run, "insert", rows[1].TalentID, 2, FALSE)
    /\ Len(RowsFor(rows[1].TalentID)) = 1
    /\ itemState[rows[2].TalentID] = "persisted"
    /\ WroteIn(run, rows[2].TalentID)

\* a run before run r wrote a row for TalentID id: the entity has a row when
\* run r queries its pending set
HadRowBefore(r, id) == \E q \in 1..(r - 1) : WroteIn(q, id)

\* C15: in every run, an entity that has an output row when the run queries
\* its pending set, be it one row of several records, is not in the pending
\* set the run acquires, and the run issues no fetch and no insert for it.
C15_DoneEntityNotPending ==
    \A r \in 1..run : \A id \in TalentSet :
        HadRowBefore(r, id) =>
            /\ \A i \in OpIdx : oplog[i].run = r => oplog[i].id # id
            /\ (r = run /\ QueryOk(run)) => id \notin RowIds

\* the second run has exited; it acquired a pending set without the entity
\* of which the first run wrote the first of two records
C15_Witness ==
    /\ run = 2
    /\ pc = "exited"
    /\ QueryOk(2)
    /\ \E id \in TalentSet :
          /\ \E j \in OpIdx : oplog[j] = Op(1, "insert", id, 2, FALSE)
          /\ Len(NormCredits(id)) = 2
          /\ Len(RowsFor(id)) = 1
          /\ id \notin RowIds

FetchAttempts(r, id) ==
    { i \in OpIdx : oplog[i].run = r /\ oplog[i].op = "fetch" /\ oplog[i].id = id }

\* C16: in every run the document of a WorkItem is requested at most once,
\* and each record of a WorkItem has at most one insert attempt, whether the
\* request or the attempt succeeded or not.
C16_NoRetry ==
    \A r \in 1..run : \A id \in TalentSet :
        /\ Cardinality(FetchAttempts(r, id)) <= 1
        /\ \A i, j \in InsertAttempts(r, id) : oplog[i].n = oplog[j].n => i = j

\* the run has exited: the fetch of one WorkItem failed and was its only
\* fetch, the first insert of the other failed and was its only insert
C16_Witness ==
    /\ pc = "exited"
    /\ \E a, b \in RowIds :
          /\ \E i \in OpIdx : oplog[i] = Op(run, "fetch", a, 0, FALSE)
          /\ Cardinality(FetchAttempts(run, a)) = 1
          /\ \E i \in OpIdx : oplog[i] = Op(run, "insert", b, 1, FALSE)
          /\ Cardinality(InsertAttempts(run, b)) = 1

\* run r is over
Exited(r) == r < run \/ (r = run /\ pc = "exited")

\* run r acquired a pending set with TalentID id in it and wrote no row for
\* it: the WorkItem ended run r with zero rows written
EndedWithoutRows(r, id) ==
    /\ r < run
    /\ QueryOk(r)
    /\ ~HadRowBefore(r + 1, id)

YieldsNoRecord(id) == NoIdentifier(id) \/ (HasPage(id) /\ NormCredits(id) = <<>>)

WritingRuns(id) == { r \in 1..run : WroteIn(r, id) }

\* the positions in oplog of the inserts that wrote a row for TalentID id
RowWrites(id) ==
    { i \in OpIdx : oplog[i].op = "insert" /\ oplog[i].id = id /\ oplog[i].ok }

\* C19: with the runs executed one after the other, the rows of an entity
\* are all written by one run: at most one run writes rows for it, the
\* entity has as many rows as that run had successful inserts for it, and no
\* record of it is written twice.
C19_RowsOfEntityFromOneRun ==
    \A id \in TalentSet :
        /\ Cardinality(WritingRuns(id)) <= 1
        /\ Len(RowsFor(id)) = Cardinality(RowWrites(id))
        /\ \A i, j \in RowWrites(id) : oplog[i].n = oplog[j].n => i = j

\* the second run has exited: one entity has the rows the first run wrote
\* and the other, left without a row by a failure of the first run, has the
\* rows the second run wrote
C19_Witness ==
    /\ run = 2
    /\ pc = "exited"
    /\ \E a, b \in TalentSet :
          /\ WritingRuns(a) = {1}
          /\ WritingRuns(b) = {2}
          /\ ItemOpFailed(1, b)
          /\ Len(RowsFor(b)) = 2

====
